---- MODULE Spec2Model ----
(***************************************************************************)
(* ContestTaskManager (src/unnamed/part_001): a deposit-and-contest ledger. *)
(* Every external call is one transaction of the EVM: it either commits or  *)
(* reverts as a whole.  The only place where a call is suspended is the     *)
(* external tokenManager.mint call inside _claimInterest; while it is       *)
(* suspended the callee may call back into the ledger.                      *)
(***************************************************************************)
EXTENDS Integers, Sequences, FiniteSets, Bags, TLC

\* ---------------------------------------------------------------- bounds
MaxContests == 2      \* createContest is called at most this many times
MaxTicks == 1         \* the clock advances at most this many times
MaxUnits == 2         \* a participant's depositAmount is at most MaxUnits * Unit
MaxHalfTicks == 2     \* SpecAccrual: the clock advances at most this many half years

\* ------------------------------------------------------ program constants
INTEREST_RATE == 5
SECONDS_PER_YEAR == 365 * 24 * 60 * 60

\* ------------------------------------------------------------ input sets
ZERO == "0x0"          \* address(0): default value of an address variable
OWNER == "owner"       \* Ownable(msg.sender) of the constructor
ALICE == "alice"
Users == {OWNER, ALICE}             \* addresses that can be msg.sender
Addresses == Users \cup {ZERO}      \* keys of the participant mapping
ContestIds == 1 .. MaxContests      \* keys of the contests mapping
JoinIds == {1}                      \* the contest that the calls taking a contestId are made on
Titles == {"t"}
TickStep == SECONDS_PER_YEAR
Durations == {0}
Unit == 100 \div INTEREST_RATE      \* smallest principal with annualInterest > 0
Values == {0, Unit}                 \* msg.value of a deposit

\* ReentrancyGuard._status
NOT_ENTERED == "NOT_ENTERED"
ENTERED == "ENTERED"

\* Failure kinds: the require strings of the source under the spec's names
NoError == "none"
NotOwner == "OwnableUnauthorizedAccount"
Reentrant == "ReentrancyGuardReentrantCall"
InvalidAmount == "Deposit amount must be greater than 0"
ContestInactive == "Contest is not active"
AlreadyFinished == "Participant already finished"
NoDeposit == "No deposit found"
VotingClosed == "Voting period has ended"
NotAParticipant == "You must be a participant to vote"
AlreadyVoted == "You have already voted"
NomineeNotParticipant == "Nominee must be a participant"
VotingStillOpen == "Voting period is not over"
ContestStillActive == "Contest is still active"
AlreadyInactive == "Contest is already inactive"
MintFailed == "mint reverted"

\* ------------------------------------------------------------ data model
DefaultParticipant ==
  [depositAmount |-> 0, depositTimestamp |-> 0, lastInterestClaimTime |-> 0,
   votesReceived |-> 0, hasVoted |-> FALSE, hasFinished |-> FALSE]

\* description and goals are stored next to title and never read: title
\* stands for the three opaque strings
DefaultContest ==
  [title |-> "", totalDeposited |-> 0, totalInterestGenerated |-> 0,
   participantsCount |-> 0, votingDeadline |-> 0, active |-> FALSE]

\* The storage of the contract, as a value: what a revert restores
EmptyLedger ==
  [counter |-> 0,
   contests |-> [c \in ContestIds |-> DefaultContest],
   parts |-> [c \in ContestIds |-> [a \in Addresses |-> DefaultParticipant]]]

Event(name, c, a, b, n) ==
  [name |-> name, contestId |-> c, who |-> a, whom |-> b, amount |-> n]

\* Result of running a function body on storage L
Ok(L, events, retId, winner) ==
  [err |-> NoError, L |-> L, events |-> events, retId |-> retId, winner |-> winner]
Fail(L, err) ==
  [err |-> err, L |-> L, events |-> <<>>, retId |-> 0, winner |-> ZERO]

\* Variant: the participant records written before the failure survive it
Revert_keepParticipants(snap, cur) == [snap EXCEPT !.parts = cur.parts]

\* A failed call undoes every storage write of the transaction
Revert(snap, cur) == snap

\* ------------------------------------------------------- function bodies
\* Variant: the second division rounds up
AccruedInterest_roundUp(depositAmount, elapsedTime) ==
  (((depositAmount * INTEREST_RATE) \div 100) * elapsedTime + (SECONDS_PER_YEAR - 1))
    \div SECONDS_PER_YEAR

\* Variant: the second division keeps the remainder instead of the quotient
AccruedInterest_remainder(depositAmount, elapsedTime) ==
  (((depositAmount * INTEREST_RATE) \div 100) * elapsedTime) % SECONDS_PER_YEAR

\* (annualInterest * elapsedTime) / SECONDS_PER_YEAR, two truncating divisions
AccruedInterest(depositAmount, elapsedTime) ==
  (((depositAmount * INTEREST_RATE) \div 100) * elapsedTime) \div SECONDS_PER_YEAR

\* Variant: the counter is read without having been incremented after the
\* first contest
createContest_reuseId(L, sender, title, votingDuration, t) ==
  IF sender # OWNER THEN Fail(L, NotOwner)
  ELSE
    LET contestId == IF L.counter = 0 THEN 1 ELSE L.counter
        L1 == [L EXCEPT !.counter = contestId,
                        !.contests[contestId] =
                           [title |-> title, totalDeposited |-> 0,
                            totalInterestGenerated |-> 0, participantsCount |-> 0,
                            votingDeadline |-> t + votingDuration, active |-> TRUE]]
    IN Ok(L1, <<Event("ContestCreated", contestId, ZERO, ZERO, t + votingDuration)>>,
          contestId, ZERO)

\* Variant: the deadline is the duration, block.timestamp is not added
createContest_deadlineIsDuration(L, sender, title, votingDuration, t) ==
  IF sender # OWNER THEN Fail(L, NotOwner)
  ELSE
    LET contestId == L.counter + 1
        L1 == [L EXCEPT !.counter = contestId,
                        !.contests[contestId] =
                           [title |-> title, totalDeposited |-> 0,
                            totalInterestGenerated |-> 0, participantsCount |-> 0,
                            votingDeadline |-> votingDuration, active |-> TRUE]]
    IN Ok(L1, <<Event("ContestCreated", contestId, ZERO, ZERO, votingDuration)>>,
          contestId, ZERO)

createContest(L, sender, title, votingDuration, t) ==
  IF sender # OWNER THEN Fail(L, NotOwner)
  ELSE
    LET contestId == L.counter + 1
        L1 == [L EXCEPT !.counter = contestId,
                        !.contests[contestId] =
                           [title |-> title, totalDeposited |-> 0,
                            totalInterestGenerated |-> 0, participantsCount |-> 0,
                            votingDeadline |-> t + votingDuration, active |-> TRUE]]
    IN Ok(L1, <<Event("ContestCreated", contestId, ZERO, ZERO, t + votingDuration)>>,
          contestId, ZERO)

\* Variant: the require on contests[contestId].active is missing
depositChecks_noActive(L, sender, contestId, value) ==
  IF ~(value > 0) THEN InvalidAmount
  ELSE IF L.parts[contestId][sender].hasFinished THEN AlreadyFinished
  ELSE NoError

\* deposit up to the point where it either completes the first-deposit branch
\* or enters _claimInterest: the three requires
depositChecks(L, sender, contestId, value) ==
  IF ~(value > 0) THEN InvalidAmount
  ELSE IF ~L.contests[contestId].active THEN ContestInactive
  ELSE IF L.parts[contestId][sender].hasFinished THEN AlreadyFinished
  ELSE NoError

\* Variant: participantsCount is not incremented
depositFirst_noCount(L, sender, contestId, t) ==
  [L EXCEPT !.parts[contestId][sender].lastInterestClaimTime = t]

\* lines 83-85: the branch of a first deposit
depositFirst(L, sender, contestId, t) ==
  [L EXCEPT !.contests[contestId].participantsCount = @ + 1,
            !.parts[contestId][sender].lastInterestClaimTime = t]

\* Variant: totalDeposited is not updated
depositTail_noTotal(L, sender, contestId, value, t) ==
  [L EXCEPT !.parts[contestId][sender].depositAmount = @ + value,
            !.parts[contestId][sender].depositTimestamp = t]

\* lines 90-95: the part of deposit after the if/else
depositTail(L, sender, contestId, value, t) ==
  [L EXCEPT !.parts[contestId][sender].depositAmount = @ + value,
            !.parts[contestId][sender].depositTimestamp = t,
            !.contests[contestId].totalDeposited = @ + value]

\* Variant: lastInterestClaimTime is not reset
claimBeforeMint_noReset(L, contestId, a, t) == L

\* _claimInterest up to the mint call: storage after line 112
claimBeforeMint(L, contestId, a, t) ==
  [L EXCEPT !.parts[contestId][a].lastInterestClaimTime = t]

\* _claimInterest after the mint call returned: lines 116-117
claimAfterMint(L, contestId, accrued) ==
  [L EXCEPT !.contests[contestId].totalInterestGenerated = @ + accrued]

\* Variant: the require on votingDeadline is missing
vote_noDeadlineCheck(L, sender, contestId, nominee, t) ==
  LET voter == L.parts[contestId][sender]
      nomineeParticipant == L.parts[contestId][nominee]
  IN IF ~L.contests[contestId].active THEN Fail(L, ContestInactive)
     ELSE IF ~(voter.depositAmount > 0) THEN Fail(L, NotAParticipant)
     ELSE IF voter.hasVoted THEN Fail(L, AlreadyVoted)
     ELSE IF ~(nomineeParticipant.depositAmount > 0) THEN Fail(L, NomineeNotParticipant)
     ELSE
       LET L1 == [L EXCEPT !.parts[contestId][sender].hasVoted = TRUE]
           L2 == [L1 EXCEPT !.parts[contestId][nominee].votesReceived = @ + 1]
       IN Ok(L2, <<Event("Voted", contestId, sender, nominee, 0)>>, 0, ZERO)

\* Variant: hasVoted is set on the nominee's record
vote_marksNominee(L, sender, contestId, nominee, t) ==
  LET voter == L.parts[contestId][sender]
      nomineeParticipant == L.parts[contestId][nominee]
  IN IF ~(t <= L.contests[contestId].votingDeadline) THEN Fail(L, VotingClosed)
     ELSE IF ~L.contests[contestId].active THEN Fail(L, ContestInactive)
     ELSE IF ~(voter.depositAmount > 0) THEN Fail(L, NotAParticipant)
     ELSE IF voter.hasVoted THEN Fail(L, AlreadyVoted)
     ELSE IF ~(nomineeParticipant.depositAmount > 0) THEN Fail(L, NomineeNotParticipant)
     ELSE
       LET L1 == [L EXCEPT !.parts[contestId][nominee].hasVoted = TRUE]
           L2 == [L1 EXCEPT !.parts[contestId][nominee].votesReceived = @ + 1]
       IN Ok(L2, <<Event("Voted", contestId, sender, nominee, 0)>>, 0, ZERO)

\* Variant: the require on voter.depositAmount is missing
vote_noParticipantCheck(L, sender, contestId, nominee, t) ==
  LET voter == L.parts[contestId][sender]
      nomineeParticipant == L.parts[contestId][nominee]
  IN IF ~(t <= L.contests[contestId].votingDeadline) THEN Fail(L, VotingClosed)
     ELSE IF ~L.contests[contestId].active THEN Fail(L, ContestInactive)
     ELSE IF voter.hasVoted THEN Fail(L, AlreadyVoted)
     ELSE IF ~(nomineeParticipant.depositAmount > 0) THEN Fail(L, NomineeNotParticipant)
     ELSE
       LET L1 == [L EXCEPT !.parts[contestId][sender].hasVoted = TRUE]
           L2 == [L1 EXCEPT !.parts[contestId][nominee].votesReceived = @ + 1]
       IN Ok(L2, <<Event("Voted", contestId, sender, nominee, 0)>>, 0, ZERO)

\* Variant: the require on voter.hasVoted is missing
vote_noVotedCheck(L, sender, contestId, nominee, t) ==
  LET voter == L.parts[contestId][sender]
      nomineeParticipant == L.parts[contestId][nominee]
  IN IF ~(t <= L.contests[contestId].votingDeadline) THEN Fail(L, VotingClosed)
     ELSE IF ~L.contests[contestId].active THEN Fail(L, ContestInactive)
     ELSE IF ~(voter.depositAmount > 0) THEN Fail(L, NotAParticipant)
     ELSE IF ~(nomineeParticipant.depositAmount > 0) THEN Fail(L, NomineeNotParticipant)
     ELSE
       LET L1 == [L EXCEPT !.parts[contestId][sender].hasVoted = TRUE]
           L2 == [L1 EXCEPT !.parts[contestId][nominee].votesReceived = @ + 1]
       IN Ok(L2, <<Event("Voted", contestId, sender, nominee, 0)>>, 0, ZERO)

vote(L, sender, contestId, nominee, t) ==
  LET voter == L.parts[contestId][sender]
      nomineeParticipant == L.parts[contestId][nominee]
  IN IF ~(t <= L.contests[contestId].votingDeadline) THEN Fail(L, VotingClosed)
     ELSE IF ~L.contests[contestId].active THEN Fail(L, ContestInactive)
     ELSE IF ~(voter.depositAmount > 0) THEN Fail(L, NotAParticipant)
     ELSE IF voter.hasVoted THEN Fail(L, AlreadyVoted)
     ELSE IF ~(nomineeParticipant.depositAmount > 0) THEN Fail(L, NomineeNotParticipant)
     ELSE
       LET L1 == [L EXCEPT !.parts[contestId][sender].hasVoted = TRUE]
           L2 == [L1 EXCEPT !.parts[contestId][nominee].votesReceived = @ + 1]
       IN Ok(L2, <<Event("Voted", contestId, sender, nominee, 0)>>, 0, ZERO)

\* The loop of getWinner: i only counts; every iteration reads the record of
\* currentWinner, which is assigned to itself, so it stays address(0)
RECURSIVE winnerLoop(_, _, _, _, _)
winnerLoop(L, contestId, i, maxVotes, currentWinner) ==
  IF ~(i < L.contests[contestId].participantsCount) THEN currentWinner
  ELSE
    LET participant == L.parts[contestId][currentWinner]
    IN IF participant.votesReceived > maxVotes
       THEN winnerLoop(L, contestId, i + 1, participant.votesReceived, currentWinner)
       ELSE winnerLoop(L, contestId, i + 1, maxVotes, currentWinner)

getWinner(L, contestId, t) ==
  IF ~(t > L.contests[contestId].votingDeadline) THEN Fail(L, VotingStillOpen)
  ELSE IF ~L.contests[contestId].active THEN Fail(L, ContestStillActive)
  ELSE Ok(L, <<>>, 0, winnerLoop(L, contestId, 0, 0, ZERO))

endContest(L, sender, contestId, t) ==
  IF sender # OWNER THEN Fail(L, NotOwner)
  ELSE IF ~L.contests[contestId].active THEN Fail(L, AlreadyInactive)
  ELSE
    LET L1 == [L EXCEPT !.contests[contestId].active = FALSE]
        w == getWinner(L1, contestId, t)
    IN IF w.err # NoError THEN Fail(Revert(L, L1), w.err)
       ELSE Ok(L1, <<Event("WinnerAnnounced", contestId, w.winner, ZERO, 0)>>,
               0, w.winner)

\* nonReentrant: the modifier's check before the body runs
nonReentrantBefore(st) == IF st = ENTERED THEN Reentrant ELSE NoError

\* ----------------------------------------------------------------- state
VARIABLES
  now,                  \* block.timestamp
  ticks,                \* how often the clock has advanced
  contestCounter,       \* _contestCounter
  contests,             \* mapping(uint256 => ContestDetails)
  contestParticipants,  \* mapping(uint256 => mapping(address => Participant))
  status,               \* ReentrancyGuard._status
  pc,                   \* "idle", or "inMint" while tokenManager.mint runs
  pending,              \* the call suspended in tokenManager.mint
  snapshot,             \* storage at the start of the suspended transaction
  lastCall              \* outcome of the latest call, until the caller has read it

vars == <<now, ticks, contestCounter, contests, contestParticipants, status,
          pc, pending, snapshot, lastCall>>

Ledger == [counter |-> contestCounter, contests |-> contests,
           parts |-> contestParticipants]

SetLedger(L) ==
  /\ contestCounter' = L.counter
  /\ contests' = L.contests
  /\ contestParticipants' = L.parts

NoPending == [op |-> "none", sender |-> ZERO, contestId |-> 1, value |-> 0,
              accrued |-> 0]

\* The caller's latest call was a claimInterest on contest c that succeeded
\* and the caller has done nothing since
JustClaimed(sender, c) ==
  /\ lastCall.op = "claimInterest"
  /\ lastCall.err = NoError
  /\ lastCall.sender = sender
  /\ lastCall.contestId = c

\* What a caller observes of a call: its arguments, the failure kind, the
\* return value, the tokens minted, the events, the call depth (1 = made from
\* inside tokenManager.mint) and whether it repeats the claimInterest the
\* caller has just completed
Call(op, sender, c, value, r, minted, depth) ==
  [op |-> op, sender |-> sender, contestId |-> c, value |-> value,
   err |-> r.err, retId |-> r.retId, winner |-> r.winner, minted |-> minted,
   events |-> r.events, depth |-> depth,
   repeat |-> (op = "claimInterest" /\ JustClaimed(sender, c))]

NoCall ==
  [op |-> "none", sender |-> ZERO, contestId |-> 1, value |-> 0,
   err |-> NoError, retId |-> 0, winner |-> ZERO, minted |-> 0,
   events |-> <<>>, depth |-> 0, repeat |-> FALSE]

Init ==
  /\ now = 1
  /\ ticks = 0
  /\ contestCounter = 0
  /\ contests = EmptyLedger.contests
  /\ contestParticipants = EmptyLedger.parts
  /\ status = NOT_ENTERED
  /\ pc = "idle"
  /\ pending = NoPending
  /\ snapshot = EmptyLedger
  /\ lastCall = NoCall

\* A top-level call that runs to its end in one step: commit or revert
Finish(op, sender, c, value, r, minted) ==
  /\ SetLedger(IF r.err = NoError THEN r.L ELSE Revert(Ledger, r.L))
  /\ lastCall' = Call(op, sender, c, value, r, minted, 0)
  /\ UNCHANGED <<now, ticks, status, pc, pending, snapshot>>

\* A call suspends in tokenManager.mint with storage L written so far
Suspend(op, sender, c, value, accrued, L) ==
  /\ SetLedger(L)
  /\ status' = ENTERED
  /\ pc' = "inMint"
  /\ pending' = [op |-> op, sender |-> sender, contestId |-> c, value |-> value,
                 accrued |-> accrued]
  /\ snapshot' = Ledger
  /\ lastCall' = NoCall
  /\ UNCHANGED <<now, ticks>>

\* ------------------------------------------------------------- operations
Tick ==
  /\ pc = "idle"
  /\ lastCall = NoCall
  /\ ticks < MaxTicks
  /\ now' = now + TickStep
  /\ ticks' = ticks + 1
  /\ UNCHANGED <<contestCounter, contests, contestParticipants, status, pc,
                 pending, snapshot, lastCall>>

\* The caller has read the outcome of its call
Return ==
  /\ lastCall # NoCall
  /\ lastCall' = NoCall
  /\ UNCHANGED <<now, ticks, contestCounter, contests, contestParticipants,
                 status, pc, pending, snapshot>>

CreateContest(sender, title, votingDuration) ==
  /\ pc = "idle"
  /\ lastCall = NoCall
  /\ contestCounter < MaxContests
  /\ Finish("createContest", sender, 1, votingDuration,
            createContest(Ledger, sender, title, votingDuration, now), 0)

\* Variant: the interest is settled on the principal after the new amount
\* is added
Deposit_settleOnNewPrincipal(sender, c, value) ==
  /\ pc = "idle"
  /\ lastCall = NoCall
  /\ contestParticipants[c][sender].depositAmount + value <= MaxUnits * Unit
  /\ LET e0 == nonReentrantBefore(status)
         e == IF e0 # NoError THEN e0 ELSE depositChecks(Ledger, sender, c, value)
         participant == contestParticipants[c][sender]
         accrued == AccruedInterest(participant.depositAmount + value,
                                    now - participant.lastInterestClaimTime)
         joined == <<Event("ParticipantJoined", c, sender, ZERO, value)>>
     IN IF e # NoError
          THEN Finish("deposit", sender, c, value, Fail(Ledger, e), 0)
        ELSE IF participant.depositAmount = 0
          THEN Finish("deposit", sender, c, value,
                      Ok(depositTail(depositFirst(Ledger, sender, c, now),
                                     sender, c, value, now), joined, 0, ZERO), 0)
        ELSE IF accrued > 0
          THEN Suspend("deposit", sender, c, value, accrued,
                       claimBeforeMint(Ledger, c, sender, now))
        ELSE Finish("deposit", sender, c, value,
                    Ok(depositTail(claimBeforeMint(Ledger, c, sender, now),
                                   sender, c, value, now), joined, 0, ZERO), 0)

Deposit(sender, c, value) ==
  /\ pc = "idle"
  /\ lastCall = NoCall
  /\ contestParticipants[c][sender].depositAmount + value <= MaxUnits * Unit
  /\ LET e0 == nonReentrantBefore(status)
         e == IF e0 # NoError THEN e0 ELSE depositChecks(Ledger, sender, c, value)
         participant == contestParticipants[c][sender]
         accrued == AccruedInterest(participant.depositAmount,
                                    now - participant.lastInterestClaimTime)
         joined == <<Event("ParticipantJoined", c, sender, ZERO, value)>>
     IN IF e # NoError
          THEN Finish("deposit", sender, c, value, Fail(Ledger, e), 0)
        ELSE IF participant.depositAmount = 0
          THEN Finish("deposit", sender, c, value,
                      Ok(depositTail(depositFirst(Ledger, sender, c, now),
                                     sender, c, value, now), joined, 0, ZERO), 0)
        ELSE IF accrued > 0
          THEN Suspend("deposit", sender, c, value, accrued,
                       claimBeforeMint(Ledger, c, sender, now))
        ELSE Finish("deposit", sender, c, value,
                    Ok(depositTail(claimBeforeMint(Ledger, c, sender, now),
                                   sender, c, value, now), joined, 0, ZERO), 0)

ClaimInterest(sender, c) ==
  /\ pc = "idle"
  /\ lastCall = NoCall \/ JustClaimed(sender, c)
  /\ LET e0 == nonReentrantBefore(status)
         participant == contestParticipants[c][sender]
         e == IF e0 # NoError THEN e0
              ELSE IF ~(participant.depositAmount > 0) THEN NoDeposit
              ELSE NoError
         accrued == AccruedInterest(participant.depositAmount,
                                    now - participant.lastInterestClaimTime)
     IN IF e # NoError
          THEN Finish("claimInterest", sender, c, 0, Fail(Ledger, e), 0)
        ELSE IF accrued > 0
          THEN Suspend("claimInterest", sender, c, 0, accrued,
                       claimBeforeMint(Ledger, c, sender, now))
        ELSE Finish("claimInterest", sender, c, 0,
                    Ok(claimBeforeMint(Ledger, c, sender, now), <<>>, 0, ZERO), 0)

Vote(sender, c, nominee) ==
  /\ pc = "idle"
  /\ lastCall = NoCall
  /\ LET e0 == nonReentrantBefore(status)
     IN Finish("vote", sender, c, 0,
               IF e0 # NoError THEN Fail(Ledger, e0)
               ELSE vote(Ledger, sender, c, nominee, now), 0)

\* a view: msg.sender is not read
GetWinner(c) ==
  /\ pc = "idle"
  /\ lastCall = NoCall
  /\ Finish("getWinner", ZERO, c, 0, getWinner(Ledger, c, now), 0)

EndContest(sender, c) ==
  /\ pc = "idle"
  /\ lastCall = NoCall
  /\ Finish("endContest", sender, c, 0, endContest(Ledger, sender, c, now), 0)

\* tokenManager.mint returns: the suspended call runs to its end
MintReturn ==
  /\ pc = "inMint"
  /\ lastCall = NoCall
  /\ LET p == pending
         claimed == <<Event("InterestClaimed", p.contestId, p.sender, ZERO, p.accrued)>>
         L1 == claimAfterMint(Ledger, p.contestId, p.accrued)
         r == IF p.op = "deposit"
              THEN Ok(depositTail(L1, p.sender, p.contestId, p.value, now),
                      Append(claimed, Event("ParticipantJoined", p.contestId,
                                            p.sender, ZERO, p.value)), 0, ZERO)
              ELSE Ok(L1, claimed, 0, ZERO)
     IN /\ SetLedger(r.L)
        /\ lastCall' = Call(p.op, p.sender, p.contestId, p.value, r, p.accrued, 0)
  /\ status' = NOT_ENTERED
  /\ pc' = "idle"
  /\ pending' = NoPending
  /\ snapshot' = EmptyLedger
  /\ UNCHANGED <<now, ticks>>

\* tokenManager.mint reverts: the revert bubbles up through the suspended call
MintRevert ==
  /\ pc = "inMint"
  /\ lastCall = NoCall
  /\ SetLedger(Revert(snapshot, Ledger))
  /\ lastCall' = Call(pending.op, pending.sender, pending.contestId, pending.value,
                      Fail(Ledger, MintFailed), 0, 0)
  /\ status' = NOT_ENTERED
  /\ pc' = "idle"
  /\ pending' = NoPending
  /\ snapshot' = EmptyLedger
  /\ UNCHANGED <<now, ticks>>

\* ------------------------------- calls made from inside tokenManager.mint
\* A nested call commits into the storage of the running transaction or
\* reverts on its own; the suspended call stays suspended
Nested(op, sender, c, value, r) ==
  /\ pc = "inMint"
  /\ lastCall = NoCall
  /\ SetLedger(IF r.err = NoError THEN r.L ELSE Revert(Ledger, r.L))
  /\ lastCall' = Call(op, sender, c, value, r, 0, 1)
  /\ UNCHANGED <<now, ticks, status, pc, pending, snapshot>>

ReCreateContest(sender, title, votingDuration) ==
  /\ contestCounter < MaxContests
  /\ Nested("createContest", sender, 1, votingDuration,
            createContest(Ledger, sender, title, votingDuration, now))

ReEndContest(sender, c) ==
  Nested("endContest", sender, c, 0, endContest(Ledger, sender, c, now))

ReDeposit(sender, c, value) ==
  LET e0 == nonReentrantBefore(status)
      e == IF e0 # NoError THEN e0 ELSE depositChecks(Ledger, sender, c, value)
  IN /\ e # NoError
     /\ Nested("deposit", sender, c, value, Fail(Ledger, e))

ReClaimInterest(sender, c) ==
  LET e0 == nonReentrantBefore(status)
  IN /\ e0 # NoError
     /\ Nested("claimInterest", sender, c, 0, Fail(Ledger, e0))

ReVote(sender, c, nominee) ==
  LET e0 == nonReentrantBefore(status)
  IN Nested("vote", sender, c, 0,
            IF e0 # NoError THEN Fail(Ledger, e0)
            ELSE vote(Ledger, sender, c, nominee, now))

\* The three guarded functions fail in nonReentrant, before msg.sender or any
\* argument is read, so one nested call of each is made; createContest and
\* endContest carry no guard and are called by every user
Next ==
  \/ Tick
  \/ Return
  \/ \E s \in Users, ti \in Titles, d \in Durations : CreateContest(s, ti, d)
  \/ \E s \in Users, c \in JoinIds, v \in Values : Deposit(s, c, v)
  \/ \E s \in Users, c \in JoinIds : ClaimInterest(s, c)
  \/ \E s \in Users, c \in JoinIds, n \in Addresses : Vote(s, c, n)
  \/ \E c \in JoinIds : GetWinner(c)
  \/ \E s \in Users, c \in JoinIds : EndContest(s, c)
  \/ MintReturn
  \/ MintRevert
  \/ \E s \in Users, ti \in Titles, d \in Durations : ReCreateContest(s, ti, d)
  \/ \E s \in Users, c \in JoinIds : ReEndContest(s, c)
  \/ \E c \in JoinIds : ReDeposit(ALICE, c, Unit)
  \/ \E c \in JoinIds : ReClaimInterest(ALICE, c)
  \/ \E c \in JoinIds : ReVote(ALICE, c, ALICE)

Spec == Init /\ [][Next]_vars

\* ------------------------------------------------- the accrual operations
\* Variant: the elapsed time is taken from the time of the latest deposit
getAccruedInterest_sinceDeposit(L, contestId, participantAddress, t) ==
  LET participant == L.parts[contestId][participantAddress]
  IN IF participant.depositAmount = 0 THEN 0
     ELSE LET elapsedTime == t - participant.depositTimestamp
              annualInterest == (participant.depositAmount * INTEREST_RATE) \div 100
          IN (annualInterest * elapsedTime) \div SECONDS_PER_YEAR

\* The view getAccruedInterest: the value it returns
getAccruedInterest(L, contestId, participantAddress, t) ==
  LET participant == L.parts[contestId][participantAddress]
  IN IF participant.depositAmount = 0 THEN 0
     ELSE LET elapsedTime == t - participant.lastInterestClaimTime
              annualInterest == (participant.depositAmount * INTEREST_RATE) \div 100
          IN (annualInterest * elapsedTime) \div SECONDS_PER_YEAR

\* A call of the view; retId carries the uint256 it returns
GetAccruedInterest(c, participantAddress) ==
  /\ pc = "idle"
  /\ lastCall = NoCall
  /\ Finish("getAccruedInterest", participantAddress, c, 0,
            Ok(Ledger, <<>>, getAccruedInterest(Ledger, c, participantAddress, now),
               ZERO), 0)

\* The clock advances by half a year, so that the second division of the
\* accrual truncates
HalfTick ==
  /\ pc = "idle"
  /\ lastCall = NoCall
  /\ ticks < MaxHalfTicks
  /\ now' = now + (SECONDS_PER_YEAR \div 2)
  /\ ticks' = ticks + 1
  /\ UNCHANGED <<contestCounter, contests, contestParticipants, status, pc,
                 pending, snapshot, lastCall>>

\* The operations that read or write what the accrual depends on
NextAccrual ==
  \/ HalfTick
  \/ Return
  \/ \E s \in Users, ti \in Titles, d \in Durations : CreateContest(s, ti, d)
  \/ \E s \in Users, c \in JoinIds, v \in Values : Deposit(s, c, v)
  \/ \E s \in Users, c \in JoinIds : ClaimInterest(s, c)
  \/ \E c \in JoinIds, a \in Users : GetAccruedInterest(c, a)
  \/ MintReturn
  \/ MintRevert

SpecAccrual == Init /\ [][NextAccrual]_vars

\* ------------------------------------------- the life cycle of a contest
\* The values of _votingDuration a contest is created with
VotingDurations == {0, 1, TickStep}

\* The operations on contests that need no participant
NextContests ==
  \/ Tick
  \/ Return
  \/ \E s \in Users, ti \in Titles, d \in VotingDurations : CreateContest(s, ti, d)
  \/ \E c \in ContestIds : GetWinner(c)
  \/ \E s \in Users, c \in ContestIds : EndContest(s, c)

SpecContests == Init /\ [][NextContests]_vars

\* ================================================================ claims
\* Steps in which a call returns to its caller
CallStep == lastCall' # NoCall
\* ... a call made while no other call is running
TopCallStep == pc = "idle" /\ CallStep
\* ... a call made from inside tokenManager.mint
NestedCallStep == pc = "inMint" /\ pc' = "inMint" /\ CallStep

RECURSIVE SumOver(_, _)
SumOver(f, S) ==
  IF S = {} THEN 0
  ELSE LET x == CHOOSE y \in S : TRUE IN f[x] + SumOver(f, S \ {x})

SumDeposits(c) ==
  SumOver([a \in Addresses |-> contestParticipants[c][a].depositAmount], Addresses)

VotesOf(c) == [a \in Addresses |-> contestParticipants[c][a].votesReceived]

\* C1: in every reachable state, for every contest, totalDeposited equals the
\* sum of depositAmount over all participant records of the contest
C1_TotalDepositedIsSum ==
  \A c \in ContestIds : contests[c].totalDeposited = SumDeposits(c)

C1_Witness ==
  \E c \in ContestIds :
    /\ contests[c].participantsCount = 2
    /\ contests[c].totalDeposited = 3 * Unit
    /\ contests[c].totalInterestGenerated > 0

\* C2: endContest by the owner on an active contest after its voting deadline
\* succeeds, leaves active = false and emits exactly one WinnerAnnounced event
C2_EndContestSucceeds ==
  [][(CallStep /\ lastCall'.op = "endContest" /\ lastCall'.sender = OWNER
        /\ contests[lastCall'.contestId].active
        /\ now > contests[lastCall'.contestId].votingDeadline)
     => /\ lastCall'.err = NoError
        /\ ~contests'[lastCall'.contestId].active
        /\ Len(lastCall'.events) = 1
        /\ lastCall'.events[1].name = "WinnerAnnounced"
        /\ lastCall'.events[1].contestId = lastCall'.contestId]_vars

\* C3: when getWinner returns successfully (on a contest in which a vote was
\* cast), the returned address is a participant of the contest whose
\* votesReceived is at least that of every other participant
C3_WinnerHasMostVotes ==
  (/\ lastCall.op = "getWinner"
   /\ lastCall.err = NoError
   /\ \E a \in Addresses : VotesOf(lastCall.contestId)[a] > 0)
  => /\ contestParticipants[lastCall.contestId][lastCall.winner].depositAmount > 0
     /\ \A a \in Addresses :
          VotesOf(lastCall.contestId)[lastCall.winner] >= VotesOf(lastCall.contestId)[a]

\* C4: getWinner fails with VotingStillOpen when now <= votingDeadline, with
\* ContestStillActive when the contest is active, and returns a result only
\* when now > votingDeadline and the contest is not active
C4_GetWinnerPreconditions ==
  lastCall.op = "getWinner" =>
    LET c == contests[lastCall.contestId]
    IN /\ now <= c.votingDeadline => lastCall.err = VotingStillOpen
       /\ (now > c.votingDeadline /\ c.active) => lastCall.err = ContestStillActive
       /\ lastCall.err = NoError => (now > c.votingDeadline /\ ~c.active)

\* C5 (as stated): once a caller has voted in a contest, every later vote call
\* by that caller in that contest fails with AlreadyVoted, whatever the clock
\* and the contest state, and changes no votesReceived counter
C5_SecondVoteAlreadyVoted ==
  [][(TopCallStep /\ lastCall'.op = "vote"
        /\ contestParticipants[lastCall'.contestId][lastCall'.sender].hasVoted)
     => /\ lastCall'.err = AlreadyVoted
        /\ \A c \in ContestIds : VotesOf(c)' = VotesOf(c)]_vars

\* C5 (amended): once a caller has voted in a contest, every later vote call by
\* that caller in that contest fails and changes no votesReceived counter: with
\* VotingClosed when now > votingDeadline, otherwise with ContestInactive when
\* the contest is not active, otherwise with AlreadyVoted; made from inside the
\* mint call it fails with the reentrancy guard's error
C5_SecondVoteRejected ==
  [][(CallStep /\ lastCall'.op = "vote"
        /\ contestParticipants[lastCall'.contestId][lastCall'.sender].hasVoted)
     => /\ lastCall'.err =
             (IF lastCall'.depth = 1 THEN Reentrant
              ELSE IF now > contests[lastCall'.contestId].votingDeadline
                THEN VotingClosed
              ELSE IF ~contests[lastCall'.contestId].active THEN ContestInactive
              ELSE AlreadyVoted)
        /\ \A c \in ContestIds : VotesOf(c)' = VotesOf(c)]_vars

C5_Witness ==
  /\ lastCall.op = "vote"
  /\ lastCall.depth = 0
  /\ lastCall.err = AlreadyVoted
  /\ contestParticipants[lastCall.contestId][lastCall.sender].hasVoted
  /\ \E a \in Addresses : VotesOf(lastCall.contestId)[a] > 0

\* C6: the active flag of a created contest never goes from false to true, and
\* no createContest call overwrites the record of a contest that exists
C6_ActiveNeverReset ==
  [][\A c \in 1 .. contestCounter :
       /\ ~contests[c].active => ~contests'[c].active
       /\ (CallStep /\ lastCall'.op = "createContest") => contests'[c] = contests[c]]_vars

C6_Witness ==
  /\ lastCall.op = "createContest"
  /\ lastCall.err = NoError
  /\ lastCall.retId = 2
  /\ contests[1].active
  /\ contests[1].participantsCount > 0
  /\ contests[1].votingDeadline # contests[2].votingDeadline

\* C7: on a contest whose active flag is false, endContest by the owner fails
\* with AlreadyInactive, a deposit of a positive amount fails with
\* ContestInactive, a vote fails with ContestInactive or VotingClosed, and the
\* rejected call changes no contest or participant field
C7_InactiveContestRejects ==
  [][(CallStep /\ ~contests[lastCall'.contestId].active)
     => /\ (lastCall'.op = "endContest" /\ lastCall'.sender = OWNER)
             => (lastCall'.err = AlreadyInactive /\ Ledger' = Ledger)
        /\ (lastCall'.op = "deposit" /\ lastCall'.value > 0 /\ pc = "idle")
             => (lastCall'.err = ContestInactive /\ Ledger' = Ledger)
        /\ (lastCall'.op = "vote" /\ pc = "idle")
             => (lastCall'.err \in {ContestInactive, VotingClosed} /\ Ledger' = Ledger)]_vars

C7_Witness ==
  /\ lastCall.op = "deposit"
  /\ lastCall.value > 0
  /\ lastCall.err = ContestInactive
  /\ ~contests[lastCall.contestId].active
  /\ contestParticipants[lastCall.contestId][lastCall.sender].depositAmount = 0

\* C8: a rejected call leaves the whole ledger unchanged; when the mint call
\* fails during interest settlement (in claimInterest or in a second deposit)
\* the ledger is the one from before the call, so the participant's
\* lastInterestClaimTime, depositAmount and depositTimestamp and the contest's
\* totalInterestGenerated, totalDeposited and participantsCount keep their
\* values and the interest that was about to be minted is still outstanding
C8_RejectedCallChangesNothing ==
  [][/\ (TopCallStep /\ lastCall'.err # NoError) => Ledger' = Ledger
     /\ (NestedCallStep /\ lastCall'.err # NoError) => Ledger' = Ledger
     /\ (pc = "inMint" /\ pc' = "idle" /\ lastCall'.err # NoError)
          => LET c == pending.contestId
                 a == pending.sender
                 p == contestParticipants'[c][a]
             IN /\ Ledger' = snapshot
                /\ p.lastInterestClaimTime < now
                /\ AccruedInterest(p.depositAmount, now - p.lastInterestClaimTime)
                     = pending.accrued
                /\ p.depositAmount = contestParticipants[c][a].depositAmount
                /\ p.depositTimestamp = contestParticipants[c][a].depositTimestamp
                /\ contests'[c] = contests[c]]_vars

C8_Witness ==
  /\ lastCall.op = "deposit"
  /\ lastCall.err = MintFailed
  /\ pc = "idle"
  /\ contestParticipants[lastCall.contestId][lastCall.sender].lastInterestClaimTime < now
  /\ contestParticipants[lastCall.contestId][lastCall.sender].depositAmount > 0

\* C9: while a deposit or claimInterest call is inside the mint call, every
\* ledger operation started from the mint callback is rejected and changes no
\* ledger state
C9_NoReentrantCallSucceeds ==
  [][NestedCallStep => (lastCall'.err # NoError /\ Ledger' = Ledger)]_vars

\* C10: a claimInterest call by a participant who has just completed a
\* claimInterest on the same contest, with the clock unchanged in between,
\* mints nothing, emits no event and leaves totalInterestGenerated and every
\* participant field unchanged
C10_ClaimTwiceSameClock ==
  [][\A c \in JoinIds, a \in Users :
       (JustClaimed(a, c) /\ ClaimInterest(a, c))
       => /\ pc' = "idle"
          /\ lastCall'.err = NoError
          /\ lastCall'.minted = 0
          /\ lastCall'.events = <<>>
          /\ Ledger' = Ledger]_vars

C10_Witness ==
  /\ lastCall.op = "claimInterest"
  /\ lastCall.repeat
  /\ lastCall.err = NoError
  /\ lastCall.minted = 0
  /\ contests[lastCall.contestId].totalInterestGenerated > 0

\* The accrual formula as the specification writes it
SpecFormula(depositAmount, dt) ==
  ((((depositAmount * 5) \div 100)) * dt) \div SECONDS_PER_YEAR

\* C11: getAccruedInterest returns floor(floor(depositAmount*5/100) * (now -
\* lastInterestClaimTime) / SECONDS_PER_YEAR) for a participant with a deposit
\* and 0 for an address without one, changes no state, and a claimInterest
\* call by the participant at the same clock value mints exactly that amount
C11_ViewEqualsFormulaAndClaim ==
  [][\A c \in JoinIds, a \in Users :
       LET p == contestParticipants[c][a]
           f == SpecFormula(p.depositAmount, now - p.lastInterestClaimTime)
       IN /\ GetAccruedInterest(c, a)
               => /\ lastCall'.retId = (IF p.depositAmount = 0 THEN 0 ELSE f)
                  /\ Ledger' = Ledger
          /\ (ClaimInterest(a, c) /\ p.depositAmount > 0)
               => /\ getAccruedInterest(Ledger, c, a, now) = f
                  /\ IF pc' = "inMint" THEN pending'.accrued = f
                     ELSE lastCall'.err = NoError /\ lastCall'.minted = 0 /\ f = 0
          /\ (pc = "inMint" /\ pc' = "idle" /\ lastCall'.err = NoError)
               => lastCall'.minted = pending.accrued]_vars

C11_Witness ==
  /\ lastCall.op = "getAccruedInterest"
  /\ lastCall.retId > 0
  /\ contestParticipants[lastCall.contestId][lastCall.sender].depositTimestamp
       < contestParticipants[lastCall.contestId][lastCall.sender].lastInterestClaimTime
  /\ \E a \in Users : contestParticipants[lastCall.contestId][a].depositAmount = 0

\* Increments of principal and of elapsed time the monotonicity is tried with
MorePrincipal == {0, 1, Unit - 1, Unit}
MoreElapsed == {0, 1, SECONDS_PER_YEAR \div 2}

\* C12: the accrual is monotonic: for principals p1 <= p2 and elapsed times
\* d1 <= d2, accrued(p1, d1) <= accrued(p2, d2); compared between every two
\* participants of a contest and between every participant and a larger
\* principal or a longer elapsed time
C12_AccrualMonotonic ==
  \A c \in JoinIds, a \in Users :
    LET p == contestParticipants[c][a]
        d == now - p.lastInterestClaimTime
    IN /\ \A b \in Users :
            LET q == contestParticipants[c][b]
                e == now - q.lastInterestClaimTime
            IN (p.depositAmount <= q.depositAmount /\ d <= e)
                 => AccruedInterest(p.depositAmount, d)
                      <= AccruedInterest(q.depositAmount, e)
       /\ \A dp \in MorePrincipal, dt \in MoreElapsed :
            AccruedInterest(p.depositAmount, d)
              <= AccruedInterest(p.depositAmount + dp, d + dt)

C12_Witness ==
  \E c \in JoinIds, a, b \in Users :
    LET p == contestParticipants[c][a]
        q == contestParticipants[c][b]
    IN /\ 0 < p.depositAmount
       /\ p.depositAmount < q.depositAmount
       /\ q.lastInterestClaimTime < p.lastInterestClaimTime
       /\ p.lastInterestClaimTime < now
       /\ AccruedInterest(p.depositAmount, now - p.lastInterestClaimTime)
            < AccruedInterest(q.depositAmount, now - q.lastInterestClaimTime)

\* C13 (as stated): a vote call by a caller without a deposit in the contest
\* fails with NotAParticipant in every state, whether or not the deadline has
\* passed and whether or not the contest is active or exists
C13_NonDepositorNotAParticipant ==
  [][(TopCallStep /\ lastCall'.op = "vote"
        /\ contestParticipants[lastCall'.contestId][lastCall'.sender].depositAmount = 0)
     => lastCall'.err = NotAParticipant]_vars

\* C13 (amended): a vote call by a caller without a deposit in the contest
\* always fails and changes no state: with VotingClosed when now >
\* votingDeadline (which includes every contest that does not exist), otherwise
\* with ContestInactive when the contest is not active, otherwise with
\* NotAParticipant; made from inside the mint call it fails with the
\* reentrancy guard's error
C13_NonDepositorVoteRejected ==
  [][(CallStep /\ lastCall'.op = "vote"
        /\ contestParticipants[lastCall'.contestId][lastCall'.sender].depositAmount = 0)
     => /\ lastCall'.err =
             (IF lastCall'.depth = 1 THEN Reentrant
              ELSE IF now > contests[lastCall'.contestId].votingDeadline
                THEN VotingClosed
              ELSE IF ~contests[lastCall'.contestId].active THEN ContestInactive
              ELSE NotAParticipant)
        /\ Ledger' = Ledger]_vars

C13_Witness ==
  /\ lastCall.op = "vote"
  /\ lastCall.depth = 0
  /\ lastCall.err = NotAParticipant
  /\ contestParticipants[lastCall.contestId][lastCall.sender].depositAmount = 0
  /\ contests[lastCall.contestId].participantsCount > 0

\* The addresses with a non-zero deposit in contest c
Depositors(c) == {a \in Addresses : contestParticipants[c][a].depositAmount # 0}

\* C14: in every reachable state and for every contest, participantsCount is
\* the number of addresses with a non-zero depositAmount, and depositAmount is
\* zero exactly for the addresses that never made a successful deposit: it
\* starts at zero, leaves zero only in a step that is a successful deposit of
\* that address into that contest, is non-zero after every successful deposit
\* and never returns to zero
C14_CountIsDepositors ==
  /\ [](\A c \in ContestIds : contests[c].participantsCount = Cardinality(Depositors(c)))
  /\ [][/\ \A c \in ContestIds, a \in Addresses :
            IF contestParticipants[c][a].depositAmount # 0
              THEN contestParticipants'[c][a].depositAmount # 0
            ELSE \/ contestParticipants'[c][a].depositAmount = 0
                 \/ /\ CallStep
                    /\ lastCall'.op = "deposit"
                    /\ lastCall'.err = NoError
                    /\ lastCall'.contestId = c
                    /\ lastCall'.sender = a
        /\ (CallStep /\ lastCall'.op = "deposit" /\ lastCall'.err = NoError)
             => contestParticipants'[lastCall'.contestId][lastCall'.sender].depositAmount # 0]_vars

C14_Witness ==
  /\ lastCall.op = "deposit"
  /\ lastCall.err = InvalidAmount
  /\ contestParticipants[lastCall.contestId][lastCall.sender].depositAmount = 0
  /\ contests[lastCall.contestId].participantsCount = 1
  /\ Depositors(lastCall.contestId) # {}

\* C15: on a second or later successful deposit the interest is settled first,
\* on the principal held before the new amount is added: the amount minted is
\* the accrual formula applied to the pre-deposit depositAmount, the new
\* amount is added to that principal, and afterwards lastInterestClaimTime is
\* now, so that getAccruedInterest at the same clock value returns 0
C15_LaterDepositSettlesFirst ==
  [][\A c \in JoinIds, a \in Users :
       LET before == IF pc = "inMint" THEN snapshot.parts[c][a]
                     ELSE contestParticipants[c][a]
           totalBefore == IF pc = "inMint"
                          THEN snapshot.contests[c].totalInterestGenerated
                          ELSE contests[c].totalInterestGenerated
           after == contestParticipants'[c][a]
           owed == SpecFormula(before.depositAmount, now - before.lastInterestClaimTime)
       IN /\ \A v \in Values \ {0} :
               (Deposit(a, c, v) /\ before.depositAmount > 0 /\ owed > 0)
               => /\ pc' = "inMint"
                  /\ pending'.accrued = owed
                  /\ after.depositAmount = before.depositAmount
                  /\ after.lastInterestClaimTime = now
          /\ (CallStep /\ lastCall'.op = "deposit" /\ lastCall'.err = NoError
                /\ lastCall'.contestId = c /\ lastCall'.sender = a
                /\ before.depositAmount > 0)
               => /\ lastCall'.minted = owed
                  /\ contests'[c].totalInterestGenerated = totalBefore + owed
                  /\ after.depositAmount = before.depositAmount + lastCall'.value
                  /\ after.lastInterestClaimTime = now
                  /\ getAccruedInterest(Ledger', c, a, now) = 0]_vars

C15_Witness ==
  /\ lastCall.op = "deposit"
  /\ lastCall.err = NoError
  /\ lastCall.minted > 0
  /\ contestParticipants[lastCall.contestId][lastCall.sender].depositAmount
       > lastCall.value
  /\ contestParticipants[lastCall.contestId][lastCall.sender].lastInterestClaimTime = now

\* C16: contest identifiers are allocated sequentially from 1: the counter
\* starts at 0 and changes only in a successful createContest (or back to its
\* value at the start of a transaction that reverts), which returns the
\* counter plus one and stores a contest with active = true, votingDeadline =
\* now + votingDuration and all counters zero, leaving the other contests as
\* they are; a createContest call by a non-owner fails with the owner check's
\* error and allocates nothing
C16_SequentialIds ==
  /\ contestCounter = 0
  /\ [][/\ contestCounter' # contestCounter
             => \/ CallStep /\ lastCall'.op = "createContest" /\ lastCall'.err = NoError
                \/ /\ pc = "inMint"
                   /\ lastCall'.err = MintFailed
                   /\ contestCounter' = snapshot.counter
        /\ (CallStep /\ lastCall'.op = "createContest")
             => IF lastCall'.sender = OWNER
                  THEN LET n == lastCall'.retId
                       IN /\ lastCall'.err = NoError
                          /\ n = contestCounter + 1
                          /\ contestCounter' = n
                          /\ contests'[n].active
                          /\ contests'[n].votingDeadline = now + lastCall'.value
                          /\ contests'[n].totalDeposited = 0
                          /\ contests'[n].totalInterestGenerated = 0
                          /\ contests'[n].participantsCount = 0
                          /\ \A a \in Addresses :
                               contestParticipants'[n][a] = DefaultParticipant
                          /\ \A c \in ContestIds \ {n} : contests'[c] = contests[c]
                ELSE /\ lastCall'.err = NotOwner
                     /\ Ledger' = Ledger]_vars

C16_Witness ==
  /\ lastCall.op = "createContest"
  /\ lastCall.err = NoError
  /\ lastCall.retId = 2
  /\ lastCall.value > 0
  /\ now > 1
  /\ contests[2].votingDeadline = now + lastCall.value
  /\ contests[1].votingDeadline < now

\* C17: a successful vote(contestId, nominee) changes exactly two fields, the
\* caller's hasVoted from false to true and the nominee's votesReceived by
\* plus one, and nothing else in any contest or participant record; the
\* nominee may be the caller
C17_VoteChangesTwoFields ==
  [][(CallStep /\ lastCall'.op = "vote" /\ lastCall'.err = NoError)
     => LET c == lastCall'.contestId
            voter == lastCall'.sender
            nominee == lastCall'.events[1].whom
        IN /\ ~contestParticipants[c][voter].hasVoted
           /\ contestCounter' = contestCounter
           /\ contests' = contests
           /\ \A d \in ContestIds, a \in Addresses :
                contestParticipants'[d][a] =
                  [contestParticipants[d][a] EXCEPT
                     !.hasVoted = IF d = c /\ a = voter THEN TRUE ELSE @,
                     !.votesReceived = IF d = c /\ a = nominee THEN @ + 1 ELSE @]]_vars

C17_Witness ==
  /\ lastCall.op = "vote"
  /\ lastCall.err = NoError
  /\ lastCall.events[1].whom = lastCall.sender
  /\ contestParticipants[lastCall.contestId][lastCall.sender].votesReceived = 1
  /\ contestParticipants[lastCall.contestId][lastCall.sender].hasVoted
  /\ contests[lastCall.contestId].participantsCount = 2

\* The addresses whose hasVoted is set in contest c
Voters(c) == {a \in Addresses : contestParticipants[c][a].hasVoted}

\* The votes received in contest c, as a bag of the nominees
VotesBag(c) ==
  [a \in {b \in Addresses : contestParticipants[c][b].votesReceived > 0}
     |-> contestParticipants[c][a].votesReceived]

\* C18: in every reachable state and for every contest, the sum of
\* votesReceived over the participants equals the number of participants whose
\* hasVoted is true, every one of them has a deposit, and the sum never
\* exceeds participantsCount
C18_VotesEqualVoters ==
  \A c \in ContestIds :
    /\ BagCardinality(VotesBag(c)) = Cardinality(Voters(c))
    /\ \A a \in Addresses :
         (contestParticipants[c][a].hasVoted \/ contestParticipants[c][a].votesReceived > 0)
           => contestParticipants[c][a].depositAmount > 0
    /\ BagCardinality(VotesBag(c)) <= contests[c].participantsCount

C18_Witness ==
  \E c \in ContestIds, a \in Users :
    /\ contestParticipants[c][a].votesReceived = 2
    /\ Cardinality(Voters(c)) = 2
    /\ contests[c].participantsCount = 2
    /\ pc = "inMint"

\* C19: voting and winner resolution never overlap in time for a contest: a
\* vote passes its deadline check exactly when now <= votingDeadline and
\* getWinner passes its own exactly when now > votingDeadline, so at now =
\* votingDeadline a vote is still accepted and getWinner is rejected; and once
\* now > votingDeadline holds for a created contest it holds in every later
\* state, no vote on the contest succeeds and its votesReceived counters stay
\* constant
C19_VoteAndGetWinnerDisjoint ==
  [][/\ (CallStep /\ lastCall'.op = "vote")
          => /\ lastCall'.err = NoError
                  => now <= contests[lastCall'.contestId].votingDeadline
             /\ lastCall'.depth = 0
                  => (lastCall'.err = VotingClosed
                        <=> now > contests[lastCall'.contestId].votingDeadline)
     /\ (CallStep /\ lastCall'.op = "getWinner")
          => (lastCall'.err = VotingStillOpen
                <=> now <= contests[lastCall'.contestId].votingDeadline)
     /\ \A c \in 1 .. contestCounter :
          now > contests[c].votingDeadline
            => /\ c <= contestCounter'
               /\ now' > contests'[c].votingDeadline
               /\ VotesOf(c)' = VotesOf(c)
               /\ ~(CallStep /\ lastCall'.op = "vote" /\ lastCall'.contestId = c
                      /\ lastCall'.err = NoError)]_vars

C19_Witness ==
  /\ lastCall.op = "getWinner"
  /\ lastCall.err = NoError
  /\ now > contests[lastCall.contestId].votingDeadline
  /\ \E a \in Users : VotesOf(lastCall.contestId)[a] > 0

\* What one settlement over the whole period since the deposit would mint to
\* the participants of contest c
OneSettlement(c) ==
  SumOver([a \in Users |->
             SpecFormula(contestParticipants[c][a].depositAmount,
                         contestParticipants[c][a].lastInterestClaimTime
                           - contestParticipants[c][a].depositTimestamp)], Users)

\* C20: splitting a period into several settlements never mints more than one
\* settlement over the whole period. While every participant of a contest has
\* made one deposit only (the principal is constant since depositTimestamp),
\* the total minted in the contest is at most what one settlement from
\* depositTimestamp to the latest settlement would mint; and for every
\* participant and every intermediate time s, settling at s and again now
\* mints at most what settling once now mints
C20_SplitSettlementsMintLess ==
  \A c \in JoinIds :
    /\ (\A a \in Users : contestParticipants[c][a].depositAmount \in {0, Unit})
         => contests[c].totalInterestGenerated <= OneSettlement(c)
    /\ \A a \in Users, k \in 0 .. MaxHalfTicks :
         LET p == contestParticipants[c][a]
             s == p.lastInterestClaimTime + k * (SECONDS_PER_YEAR \div 2)
         IN (p.depositAmount > 0 /\ s <= now)
              => AccruedInterest(p.depositAmount, s - p.lastInterestClaimTime)
                   + AccruedInterest(p.depositAmount, now - s)
                   <= SpecFormula(p.depositAmount, now - p.lastInterestClaimTime)

C20_Witness ==
  /\ lastCall.op = "claimInterest"
  /\ lastCall.err = NoError
  /\ \A a \in Users :
       contestParticipants[lastCall.contestId][a].depositAmount \in {0, Unit}
  /\ contestParticipants[lastCall.contestId][lastCall.sender].lastInterestClaimTime = now
  /\ contests[lastCall.contestId].totalInterestGenerated
       < OneSettlement(lastCall.contestId)

====
